---- MODULE Spec2Model ----
(***************************************************************************)
(* Model of the answering session of the quiz automation program:          *)
(* AutomationController (src/automation/automation_controller.py), the     *)
(* worker thread it starts, its fixed-page and scroll loops, and the pure   *)
(* helpers the loops call.  Text is a sequence of one-character strings.   *)
(***************************************************************************)
EXTENDS Integers, Sequences, FiniteSets, TLC

(***************************************************************************)
(* Bounds of the model                                                     *)
(***************************************************************************)
\* largest target question count (total_questions) a session is started with
MaxTotal == 2
\* number of questions printed on the scrolled document
NumQuestions == 2
\* number of worker threads the initiator may have alive in the concurrent
\* specification
MaxThreads == 2
\* height of the capture region in pixels (y2 - y1)
ViewH == 600
\* largest value of the numeric arguments the scroll-distance check draws
MaxArg == 6
\* longest answer text given to parse_answer on its own
MaxLen == 4
\* most words of a recognition result given to an extraction on its own
MaxWords == 2

(***************************************************************************)
(* Program constants                                                       *)
(***************************************************************************)
\* pixels the page is taken to move per wheel click
WheelUnit == 120
\* default overlap of the start handler
DefaultOverlap == 150

(***************************************************************************)
(* Small helpers                                                           *)
(***************************************************************************)
Max2(a, b) == IF a >= b THEN a ELSE b

Min2(a, b) == IF a <= b THEN a ELSE b

SetMax(S) == CHOOSE x \in S : \A y \in S : y <= x

RECURSIVE SortedSeq(_)
\* sorted(S): the elements of a finite set of integers in ascending order
SortedSeq(S) ==
    IF S = {} THEN <<>>
    ELSE LET m == CHOOSE x \in S : \A y \in S : x <= y
         IN  <<m>> \o SortedSeq(S \ {m})

(***************************************************************************)
(* Text: str.strip, str.startswith, str.split(','), int()                  *)
(* A character outside ASCII is written by its code point: "U5BF9" and     *)
(* "U9519" are the two judgement labels (right, wrong), "U3001" is the     *)
(* ideographic comma, "UFF08" and "UFF09" the full-width parentheses.      *)
(***************************************************************************)
Digits == <<"0", "1", "2", "3", "4", "5", "6", "7", "8", "9">>

IsDigit(c) == \E k \in 1..10 : Digits[k] = c

DigitVal(c) == (CHOOSE k \in 1..10 : Digits[k] = c) - 1

IsSpace(c) == c \in {" ", "\t", "\n"}

RECURSIVE LStrip(_)
LStrip(s) == IF s # <<>> /\ IsSpace(Head(s)) THEN LStrip(Tail(s)) ELSE s

RECURSIVE RStrip(_)
RStrip(s) ==
    IF s # <<>> /\ IsSpace(s[Len(s)]) THEN RStrip(SubSeq(s, 1, Len(s) - 1)) ELSE s

\* str.strip()
Strip(s) == RStrip(LStrip(s))

\* str.startswith(p)
StartsWith(s, p) == Len(s) >= Len(p) /\ SubSeq(s, 1, Len(p)) = p

RECURSIVE SplitComma(_, _)
\* str.split(','): cur is the piece read so far
SplitComma(s, cur) ==
    IF s = <<>> THEN <<cur>>
    ELSE IF Head(s) = "," THEN <<cur>> \o SplitComma(Tail(s), <<>>)
    ELSE SplitComma(Tail(s), Append(cur, Head(s)))

RECURSIVE DigitsLen(_)
\* length of the longest prefix of decimal digits (the greedy \d+)
DigitsLen(s) == IF s # <<>> /\ IsDigit(Head(s)) THEN 1 + DigitsLen(Tail(s)) ELSE 0

RECURSIVE ParseInt(_)
\* int() of a non-empty sequence of decimal digits
ParseInt(s) ==
    IF Len(s) = 1 THEN DigitVal(s[1])
    ELSE 10 * ParseInt(SubSeq(s, 1, Len(s) - 1)) + DigitVal(s[Len(s)])

RECURSIVE NumText(_)
\* str(n) for n >= 0
NumText(n) == IF n < 10 THEN <<Digits[n + 1]>> ELSE NumText(n \div 10) \o <<Digits[(n % 10) + 1]>>

(***************************************************************************)
(* parse_answer                                                            *)
(***************************************************************************)
RECURSIVE DropEmpty(_)
DropEmpty(ps) ==
    IF ps = <<>> THEN <<>>
    ELSE IF Head(ps) = <<>> THEN DropEmpty(Tail(ps))
    ELSE <<Head(ps)>> \o DropEmpty(Tail(ps))

StripAll(ps) == [k \in 1..Len(ps) |-> Strip(ps[k])]

\* mutant: the pieces of a multiple answer are not stripped
parse_answer_unstripped(answer) ==
    IF answer = <<>> THEN <<>>
    ELSE LET a == Strip(answer)
         IN  IF \E k \in 1..Len(a) : a[k] = ","
             THEN DropEmpty(SplitComma(a, <<>>))
             ELSE <<a>>

parse_answer(answer) ==
    IF answer = <<>> THEN <<>>
    ELSE LET a == Strip(answer)
         IN  IF \E k \in 1..Len(a) : a[k] = ","
             THEN DropEmpty(StripAll(SplitComma(a, <<>>)))
             ELSE <<a>>

(***************************************************************************)
(* _extract_option_positions                                               *)
(***************************************************************************)
option_markers == <<"A", "B", "C", "D", "E", "F", "U5BF9", "U9519">>

MarkerDelims == <<".", "U3001", "UFF09", ")">>

\* the condition of the inner loop for one marker
MarkerMatches(text, marker) ==
    \/ text = <<marker>>
    \/ \E d \in 1..Len(MarkerDelims) : StartsWith(text, <<marker, MarkerDelims[d]>>)

\* index of the first marker of option_markers the text matches, 0 if none
FirstMarker(text) ==
    IF \E m \in 1..Len(option_markers) : MarkerMatches(text, option_markers[m])
    THEN CHOOSE m \in 1..Len(option_markers) :
            /\ MarkerMatches(text, option_markers[m])
            /\ \A n \in 1..(m - 1) : ~MarkerMatches(text, option_markers[n])
    ELSE 0

\* the assignment option_positions[marker] = (center_x, center_y)
PutOption(positions, marker, point) ==
    [l \in (DOMAIN positions) \cup {marker} |-> IF l = marker THEN point ELSE positions[l]]

RECURSIVE ExtractOptionsFrom(_, _, _)
ExtractOptionsFrom(words_result, region, positions) ==
    IF words_result = <<>> THEN positions
    ELSE LET item == Head(words_result)
             text == Strip(item.words)
             location == item.location
             m == FirstMarker(text)
             center_x == region[1] + location.left + (location.width \div 2)
             center_y == region[2] + location.top + (location.height \div 2)
         IN  ExtractOptionsFrom(Tail(words_result), region,
                 IF m = 0 THEN positions
                 ELSE PutOption(positions, option_markers[m], <<center_x, center_y>>))

\* mutant: the region origin is not added to the centre of the box
extract_option_positions_relative(words_result, region) ==
    ExtractOptionsFrom(words_result, <<0, 0, 0, 0>>, <<>>)

extract_option_positions(words_result, region) ==
    ExtractOptionsFrom(words_result, region, <<>>)

(***************************************************************************)
(* _extract_question_numbers                                               *)
(***************************************************************************)
OpenParens == {"UFF08", "("}

CloseParens == {"UFF09", ")"}

NumberDelims == {".", "U3001", "UFF09", ")"}

\* re.match(r'^(\d+)X$', text) for a one-character X of the set xs
DigitsThen(text, xs) ==
    /\ Len(text) >= 2
    /\ DigitsLen(text) = Len(text) - 1
    /\ text[Len(text)] \in xs

\* mutant: the parenthesised shape is not recognised
NumberShapeNoParens(text) ==
    IF DigitsThen(text, {"."}) THEN 1
    ELSE IF DigitsThen(text, {"U3001"}) THEN 2
    ELSE IF DigitsThen(text, CloseParens) THEN 4
    ELSE IF /\ DigitsLen(text) >= 1
            /\ Len(text) > DigitsLen(text)
            /\ text[DigitsLen(text) + 1] \in NumberDelims THEN 5
    ELSE 0

\* the shape a stripped text matches first: 1..5, or 0 for none
NumberShape(text) ==
    IF DigitsThen(text, {"."}) THEN 1
    ELSE IF DigitsThen(text, {"U3001"}) THEN 2
    ELSE IF /\ Len(text) >= 3
            /\ text[1] \in OpenParens
            /\ DigitsThen(Tail(text), CloseParens) THEN 3
    ELSE IF DigitsThen(text, CloseParens) THEN 4
    ELSE IF /\ DigitsLen(text) >= 1
            /\ Len(text) > DigitsLen(text)
            /\ text[DigitsLen(text) + 1] \in NumberDelims THEN 5
    ELSE 0

\* int(match.group(1)) for a text of shape 1..5
NumberOf(text) ==
    IF NumberShape(text) = 3
    THEN ParseInt(SubSeq(text, 2, Len(text) - 1))
    ELSE ParseInt(SubSeq(text, 1, DigitsLen(text)))

PutQuestion(numbers, num, top) ==
    [n \in (DOMAIN numbers) \cup {num} |-> IF n = num THEN [y |-> top] ELSE numbers[n]]

RECURSIVE ExtractQuestionsFrom(_, _)
ExtractQuestionsFrom(words_result, numbers) ==
    IF words_result = <<>> THEN numbers
    ELSE LET item == Head(words_result)
             text == Strip(item.words)
             shape == NumberShape(text)
         IN  ExtractQuestionsFrom(Tail(words_result),
                 IF shape = 0 THEN numbers
                 ELSE IF shape = 5 /\ NumberOf(text) \in DOMAIN numbers THEN numbers
                 ELSE PutQuestion(numbers, NumberOf(text), item.location.top))

extract_question_numbers(words_result) == ExtractQuestionsFrom(words_result, <<>>)

(***************************************************************************)
(* _calculate_scroll_distance                                              *)
(***************************************************************************)
\* mutant: the blind step forgets the overlap
calculate_scroll_distance_full(question_numbers, region_height, overlap) ==
    IF DOMAIN question_numbers = {} THEN region_height
    ELSE LET last_question_y == SetMax({question_numbers[q].y : q \in DOMAIN question_numbers})
             min_scroll == region_height \div 2
         IN  Min2(Max2(last_question_y - overlap, min_scroll), region_height - overlap)

\* mutant: the distance is not clamped to the region height less the overlap
calculate_scroll_distance_unclamped(question_numbers, region_height, overlap) ==
    IF DOMAIN question_numbers = {} THEN region_height - overlap
    ELSE LET last_question_y == SetMax({question_numbers[q].y : q \in DOMAIN question_numbers})
             min_scroll == region_height \div 2
         IN  Max2(last_question_y - overlap, min_scroll)

\* mutant: the distance is not raised to half the region height
calculate_scroll_distance_nofloor(question_numbers, region_height, overlap) ==
    IF DOMAIN question_numbers = {} THEN region_height - overlap
    ELSE LET last_question_y == SetMax({question_numbers[q].y : q \in DOMAIN question_numbers})
         IN  Min2(last_question_y - overlap, region_height - overlap)

calculate_scroll_distance(question_numbers, region_height, overlap) ==
    IF DOMAIN question_numbers = {} THEN region_height - overlap
    ELSE LET last_question_y == SetMax({question_numbers[q].y : q \in DOMAIN question_numbers})
             min_scroll == region_height \div 2
         IN  Min2(Max2(last_question_y - overlap, min_scroll), region_height - overlap)

(***************************************************************************)
(* The world the collaborators act on: a scrollable document of question   *)
(* lines and option lines, and the page position of the capture region.    *)
(***************************************************************************)
\* capture region (x1, y1, x2, y2)
Region == <<0, 0, 800, ViewH>>

region_height == Region[4] - Region[2]

Line(text, y) == [words |-> text, location |-> [left |-> 20, top |-> y, width |-> 40, height |-> 20]]

\* question q with its two option lines, the question line at page offset y
QuestionBlock(q, y) ==
    << Line(NumText(q) \o <<".">>, y),
       Line(<<"A", ".">>, y + 30),
       Line(<<"B", "U3001">>, y + 60) >>

RECURSIVE DocFrom(_, _, _)
\* questions q..n, gap pixels apart
DocFrom(q, n, gap) ==
    IF q > n THEN <<>>
    ELSE QuestionBlock(q, 40 + (q - 1) * gap) \o DocFrom(q + 1, n, gap)

\* the documents a run may scroll: 1..NumQuestions questions, 250, 700 or
\* 1500 pixels apart
Docs ==
    {[lines |-> DocFrom(1, n, gap), height |-> 40 + n * gap] :
        n \in 1..NumQuestions, gap \in {250, 700, 1500}}

\* the lowest position the page can be scrolled to
MaxTop(d) == Max2(0, d.height - region_height)

RECURSIVE VisibleFrom(_, _)
\* the lines whose top lies inside the window at page position t, with
\* window-relative locations
VisibleFrom(ls, t) ==
    IF ls = <<>> THEN <<>>
    ELSE LET l == Head(ls)
             y == l.location.top
         IN  IF t <= y /\ y < t + region_height
             THEN <<[l EXCEPT !.location.top = y - t]>> \o VisibleFrom(Tail(ls), t)
             ELSE VisibleFrom(Tail(ls), t)

(***************************************************************************)
(* State                                                                   *)
(***************************************************************************)
VARIABLES
    threads,     \* identities of the worker threads the initiator may create
    th,          \* the locals of each worker thread
    stop_flag,   \* AutomationController._stop_flag
    doc,         \* the document on screen
    page,        \* page position of the top of the capture region
    ext,         \* the external call made by the last step, if any
    call         \* arguments and result of a helper applied on its own

vars == <<threads, th, stop_flag, doc, page, ext, call>>

NoCall == [fn |-> "none", h |-> 0, o |-> 0, ys |-> {}, out |-> 0]

\* a step of thread w (0: the initiator) that makes no external call
NoExt(w) == [w |-> w, kind |-> "none", q |-> 0, res |-> "ok", text |-> <<>>, at |-> <<>>]

\* a step of thread w that makes the external call kind on behalf of question
\* (or iteration) q, with result res: "ok", "raise", or the shape of a
\* recognition result
Ext(w, kind, q, res) == [NoExt(w) EXCEPT !.kind = kind, !.q = q, !.res = res]

\* analyze_question(question_text) on behalf of question q
Asked(w, q, res, question_text) == [Ext(w, "ask", q, res) EXCEPT !.text = question_text]

\* click_position(x, y) on behalf of question q
ClickedAt(w, q, res, point) == [Ext(w, "click", q, res) EXCEPT !.at = point]

Res(ok) == IF ok THEN "ok" ELSE "raise"

\* option coordinates marked by hand, and the marked next button
ManualOptions == [l \in {"A", "B", "C", "D"} |-> <<100, 100>>]

\* the arguments of start_answering a session may be started with; the last
\* one has an overlap that leaves less than one wheel click of the region
Configs ==
    {[scroll_mode |-> TRUE, total_questions |-> t, scroll_overlap |-> o,
      ocr_mode |-> m, manual |-> FALSE, auto_next |-> FALSE] :
        t \in 1..MaxTotal, o \in {DefaultOverlap, 400},
        m \in {"general_basic", "accurate_basic"}}
    \cup
    {[scroll_mode |-> FALSE, total_questions |-> t, scroll_overlap |-> DefaultOverlap,
      ocr_mode |-> "general_basic", manual |-> TRUE, auto_next |-> a] :
        t \in 1..MaxTotal, a \in BOOLEAN}
    \cup
    {[scroll_mode |-> FALSE, total_questions |-> t, scroll_overlap |-> DefaultOverlap,
      ocr_mode |-> m, manual |-> FALSE, auto_next |-> FALSE] :
        t \in 1..MaxTotal, m \in {"general_basic", "accurate_basic"}}
    \cup
    {[scroll_mode |-> TRUE, total_questions |-> 1, scroll_overlap |-> 500,
      ocr_mode |-> "accurate_basic", manual |-> FALSE, auto_next |-> FALSE]}

NoConfig ==
    [scroll_mode |-> FALSE, total_questions |-> 0, scroll_overlap |-> 0,
     ocr_mode |-> "none", manual |-> FALSE, auto_next |-> FALSE]

\* a thread that does not exist (yet): pc is "unborn", or "dead" once it ended
Unborn ==
    [pc |-> "unborn", cfg |-> NoConfig, answered_questions |-> {}, i |-> 0,
     capTop |-> 0, ocr |-> "none", pending |-> <<>>, question_num |-> 0,
     tokens |-> <<>>, dist |-> 0, why |-> "none", begun |-> {}, report |-> "none",
     nexts |-> <<>>, errors |-> {}, firstTop |-> -1, unread |-> FALSE,
     calling |-> FALSE, callbacks |-> 0, stopped |-> FALSE]

\* the answers the oracle may give
Answers == { <<"A">>, <<"B", ",", " ", "E">>, <<"E", ",", "A">> }

RECURSIVE JoinLines(_)
\* '\n'.join of the words of a recognition result
JoinLines(words_result) ==
    IF words_result = <<>> THEN <<>>
    ELSE IF Len(words_result) = 1 THEN Head(words_result).words
    ELSE Head(words_result).words \o <<"\n">> \o JoinLines(Tail(words_result))

\* words_result of the recognition a worker holds
WordsOf(t) == IF t.ocr = "dict" THEN VisibleFrom(doc.lines, t.capTop) ELSE <<>>

\* question_text of the recognition is empty
TextEmpty(t) == t.ocr = "blank" \/ VisibleFrom(doc.lines, t.capTop) = <<>>

\* option_positions is not None when the clicks are made
HasOptions(t) == t.cfg.manual \/ t.ocr \in {"dict", "blank"}

\* mutant: the coordinates extracted from the first window of the session are
\* kept for the windows that follow
OptionsOfFirstWindow(t) ==
    IF t.cfg.manual THEN ManualOptions
    ELSE IF t.cfg.scroll_mode /\ t.ocr = "dict"
    THEN extract_option_positions(VisibleFrom(doc.lines, t.firstTop), Region)
    ELSE extract_option_positions(WordsOf(t), Region)

\* option_positions / option_positions_temp in effect for the worker's clicks
OptionsOf(t) ==
    IF t.cfg.manual THEN ManualOptions
    ELSE extract_option_positions(WordsOf(t), Region)

\* question_text of the recognition a worker holds
QuestionText(t) == JoinLines(WordsOf(t))

\* option in option_positions
Resolves(positions, token) == Len(token) = 1 /\ token[1] \in DOMAIN positions

Alive(w) == th[w].pc \notin {"unborn", "dead"}

(***************************************************************************)
(* The initiator                                                           *)
(***************************************************************************)
\* start_answering: resets the stop flag and starts a new worker thread
start_answering(w, c) ==
    /\ ~Alive(w)
    /\ stop_flag' = FALSE
    /\ th' = [th EXCEPT ![w] = [Unborn EXCEPT !.pc = IF c.scroll_mode THEN "s_top" ELSE "n_top",
                                           !.cfg = c,
                                           !.i = IF c.scroll_mode THEN 0 ELSE 1]]
    /\ ext' = NoExt(0)
    /\ UNCHANGED <<threads, doc, page, call>>

\* stop_answering sets the stop flag; stopped records, for each worker thread
\* running at the time, that a stop was requested during its life
stop_answering ==
    /\ stop_flag' = TRUE
    /\ th' = [w \in DOMAIN th |-> IF Alive(w) THEN [th[w] EXCEPT !.stopped = TRUE] ELSE th[w]]
    /\ ext' = NoExt(0)
    /\ UNCHANGED <<threads, doc, page, call>>

(***************************************************************************)
(* The worker thread: end of the thread function                            *)
(***************************************************************************)
\* leave a loop, by break, by its condition or by an exception
Leave(t, why) == [t EXCEPT !.pc = "t_finally", !.why = why, !.pending = <<>>,
                           !.tokens = <<>>, !.question_num = 0, !.dist = 0]

\* what the worker logs about the run as it ends: the except clause of the
\* thread function logs the error of an exception that left the loop; a loop
\* left by break or by its condition logs the completion line unless the stop
\* flag is set
ClosingLog(t) ==
    IF t.why = "raised" THEN "error"
    ELSE IF ~stop_flag THEN "completed"
    ELSE "none"

\* the closing log line, then finally: stop_callback(), and the thread ends
ThreadFinally(w) ==
    /\ th[w].pc = "t_finally"
    /\ th' = [th EXCEPT ![w].pc = "dead", ![w].report = ClosingLog(th[w]),
                         ![w].callbacks = @ + 1]
    /\ ext' = NoExt(w)
    /\ UNCHANGED <<threads, stop_flag, doc, page, call>>

\* the locals of a worker whose external call, if it was inside one, returned
Returned(t) == [t EXCEPT !.calling = FALSE]

\* the next statement of the worker is a call of a collaborator: capture,
\* recognition, oracle, click or scroll
CallsOut(t) ==
    \/ t.pc \in {"s_capture", "s_ocr", "s_ask", "s_scroll", "n_capture", "n_ocr", "n_ask"}
    \/ t.pc = "s_click" /\ Resolves(OptionsOf(t), Head(t.tokens))
    \/ t.pc = "n_click" /\ HasOptions(t) /\ Resolves(OptionsOf(t), Head(t.tokens))
    \/ t.pc = "n_next" /\ t.i # t.cfg.total_questions /\ ~t.cfg.auto_next /\ t.cfg.manual

\* the worker enters a blocking call of a collaborator; the action of the
\* statement is its return
Invoke(w) ==
    /\ CallsOut(th[w])
    /\ ~th[w].calling
    /\ th' = [th EXCEPT ![w].calling = TRUE]
    /\ ext' = NoExt(w)
    /\ UNCHANGED <<threads, stop_flag, doc, page, call>>

(***************************************************************************)
(* The scroll loop (_answering_loop_scroll_mode)                           *)
(***************************************************************************)
\* mutant: the answered ids are not filtered out of the window
UnansweredInViewAll(question_numbers, answered) == SortedSeq(DOMAIN question_numbers)

\* mutant: the unanswered ids of the window are taken in descending order
UnansweredInViewDescending(question_numbers, answered) ==
    LET up == SortedSeq({q \in DOMAIN question_numbers : q \notin answered})
    IN  [k \in 1..Len(up) |-> up[Len(up) + 1 - k]]

\* unanswered_in_view: the visible ids not yet answered, ascending
UnansweredInView(question_numbers, answered) ==
    SortedSeq({q \in DOMAIN question_numbers : q \notin answered})

\* the while condition and the stop check at the top of a window
ScrollTop(w) ==
    LET t == th[w] IN
    /\ t.pc = "s_top"
    /\ th' = [th EXCEPT ![w] =
                IF Cardinality(t.answered_questions) >= t.cfg.total_questions
                THEN Leave(t, "target")
                ELSE IF stop_flag THEN Leave(t, "stop")
                ELSE [t EXCEPT !.pc = "s_capture"]]
    /\ ext' = NoExt(w)
    /\ UNCHANGED <<threads, stop_flag, doc, page, call>>

\* the screenshot of the region at the current page position; the first one
\* of a session fixes the top of its first window
Captured(t) ==
    [t EXCEPT !.pc = "s_ocr", !.capTop = page, !.ocr = "none",
              !.firstTop = IF @ < 0 THEN page ELSE @]

\* mutant: a failed capture is logged and the loop goes on to the next window
ScrollCaptureRetry(w) ==
    LET t == Returned(th[w]) IN
    /\ t.pc = "s_capture"
    /\ \E ok \in BOOLEAN :
        /\ th' = [th EXCEPT ![w] =
                    IF ok THEN Captured(t)
                    ELSE [t EXCEPT !.pc = "s_top"]]
        /\ ext' = Ext(w, "capture", 0, Res(ok))
    /\ UNCHANGED <<threads, stop_flag, doc, page, call>>

\* 1. capture_region(region); a failure ends the loop
ScrollCapture(w) ==
    LET t == Returned(th[w]) IN
    /\ t.pc = "s_capture"
    /\ \E ok \in BOOLEAN :
        /\ th' = [th EXCEPT ![w] =
                    IF ok THEN Captured(t)
                    ELSE Leave(t, "fatal")]
        /\ ext' = Ext(w, "capture", 0, Res(ok))
    /\ UNCHANGED <<threads, stop_flag, doc, page, call>>

\* mutant: the blind scroll moves by the full region height
EnterWindowBlindFull(t) ==
    LET question_numbers == extract_question_numbers(WordsOf(t))
        unanswered_in_view == UnansweredInView(question_numbers, t.answered_questions)
    IN  IF DOMAIN question_numbers = {}
        THEN [t EXCEPT !.pc = "s_scroll", !.dist = region_height]
        ELSE IF unanswered_in_view = <<>>
        THEN [t EXCEPT !.pc = "s_scroll",
                       !.dist = calculate_scroll_distance(question_numbers, region_height,
                                                          t.cfg.scroll_overlap)]
        ELSE [t EXCEPT !.pc = "s_qtop", !.pending = unanswered_in_view]

\* mutant: only the first unanswered id of a window is answered
EnterWindowFirstOnly(t) ==
    LET question_numbers == extract_question_numbers(WordsOf(t))
        unanswered_in_view == UnansweredInView(question_numbers, t.answered_questions)
    IN  IF DOMAIN question_numbers = {}
        THEN [t EXCEPT !.pc = "s_scroll", !.dist = region_height - t.cfg.scroll_overlap]
        ELSE IF unanswered_in_view = <<>>
        THEN [t EXCEPT !.pc = "s_scroll",
                       !.dist = calculate_scroll_distance(question_numbers, region_height,
                                                          t.cfg.scroll_overlap)]
        ELSE [t EXCEPT !.pc = "s_qtop", !.pending = <<Head(unanswered_in_view)>>]

\* the window is known: blind scroll, scroll past answered ids, or answer
EnterWindow(t) ==
    LET question_numbers == extract_question_numbers(WordsOf(t))
        unanswered_in_view == UnansweredInView(question_numbers, t.answered_questions)
    IN  IF DOMAIN question_numbers = {}
        THEN [t EXCEPT !.pc = "s_scroll", !.dist = region_height - t.cfg.scroll_overlap]
        ELSE IF unanswered_in_view = <<>>
        THEN [t EXCEPT !.pc = "s_scroll",
                       !.dist = calculate_scroll_distance(question_numbers, region_height,
                                                          t.cfg.scroll_overlap)]
        ELSE [t EXCEPT !.pc = "s_qtop", !.pending = unanswered_in_view]

\* 2.-4. recognize_text; an exception or a result that is no dict ends the loop
ScrollRecognize(w) ==
    LET t == Returned(th[w]) IN
    /\ t.pc = "s_ocr"
    /\ \E r \in {"dict", "blank", "plain", "raise"} :
        /\ th' = [th EXCEPT ![w] =
                    IF r \in {"plain", "raise"} THEN Leave(t, "fatal")
                    ELSE EnterWindow([t EXCEPT !.ocr = r, !.unread = @ \/ r = "blank"])]
        /\ ext' = Ext(w, "ocr", 0, IF r = "dict" THEN "ok" ELSE r)
    /\ UNCHANGED <<threads, stop_flag, doc, page, call>>

\* mutant: after the for loop the page is scrolled whatever the answered count
AfterWindowScrollsOn(t) ==
    [t EXCEPT !.pc = "s_scroll", !.pending = <<>>, !.question_num = 0,
              !.dist = calculate_scroll_distance(extract_question_numbers(WordsOf(t)),
                                                 region_height, t.cfg.scroll_overlap)]

\* 6. after the for loop: scroll on unless the target is reached
AfterWindow(t) ==
    IF Cardinality(t.answered_questions) < t.cfg.total_questions
    THEN [t EXCEPT !.pc = "s_scroll", !.pending = <<>>, !.question_num = 0,
                   !.dist = calculate_scroll_distance(extract_question_numbers(WordsOf(t)),
                                                      region_height, t.cfg.scroll_overlap)]
    ELSE [t EXCEPT !.pc = "s_top", !.pending = <<>>, !.question_num = 0]

\* mutant: the for loop does not test the answered count against the target
ScrollQuestionTopNoTarget(w) ==
    LET t == th[w] IN
    /\ t.pc = "s_qtop"
    /\ th' = [th EXCEPT ![w] =
                IF t.pending = <<>> THEN AfterWindow(t)
                ELSE IF stop_flag THEN AfterWindow(t)
                ELSE [t EXCEPT !.pc = "s_ask", !.question_num = Head(t.pending),
                               !.pending = Tail(t.pending),
                               !.begun = @ \cup {Head(t.pending)}]]
    /\ ext' = NoExt(w)
    /\ UNCHANGED <<threads, stop_flag, doc, page, call>>

\* 5. head of the for loop over unanswered_in_view
ScrollQuestionTop(w) ==
    LET t == th[w] IN
    /\ t.pc = "s_qtop"
    /\ th' = [th EXCEPT ![w] =
                IF t.pending = <<>> THEN AfterWindow(t)
                ELSE IF stop_flag THEN AfterWindow(t)
                ELSE IF Cardinality(t.answered_questions) >= t.cfg.total_questions
                THEN AfterWindow(t)
                ELSE [t EXCEPT !.pc = "s_ask", !.question_num = Head(t.pending),
                               !.pending = Tail(t.pending),
                               !.begun = @ \cup {Head(t.pending)}]]
    /\ ext' = NoExt(w)
    /\ UNCHANGED <<threads, stop_flag, doc, page, call>>

\* mutant: marking a question answered forgets the ids marked before
MarkAnsweredAlone(t) ==
    [t EXCEPT !.answered_questions = {t.question_num}, !.pc = "s_qtop",
              !.tokens = <<>>]

\* answered_questions.add(question_num), on success and in the except clause
MarkAnswered(t) ==
    [t EXCEPT !.answered_questions = @ \cup {t.question_num}, !.pc = "s_qtop",
              !.tokens = <<>>]

\* the clicks left for this question, or the question is done
ScrollClicks(t, toks) ==
    IF toks = <<>> THEN MarkAnswered(t) ELSE [t EXCEPT !.pc = "s_click", !.tokens = toks]

\* mutant: the except clause does not mark the question answered
ScrollAskSkipOnError(w) ==
    LET t == Returned(th[w]) IN
    /\ t.pc = "s_ask"
    /\ \/ /\ \E answer \in Answers :
               th' = [th EXCEPT ![w] = ScrollClicks(t, parse_answer(answer))]
          /\ ext' = Asked(w, t.question_num, "ok", QuestionText(t))
       \/ /\ th' = [th EXCEPT ![w] = [t EXCEPT !.pc = "s_qtop"]]
          /\ ext' = Asked(w, t.question_num, "raise", QuestionText(t))
    /\ UNCHANGED <<threads, stop_flag, doc, page, call>>

\* mutant: the oracle is asked with the line of the question alone
ScrollAskOwnLine(w) ==
    LET t == Returned(th[w]) IN
    /\ t.pc = "s_ask"
    /\ \/ /\ \E answer \in Answers :
               th' = [th EXCEPT ![w] = ScrollClicks(t, parse_answer(answer))]
          /\ ext' = Asked(w, t.question_num, "ok", NumText(t.question_num) \o <<".">>)
       \/ /\ th' = [th EXCEPT ![w] = MarkAnswered(t)]
          /\ ext' = Asked(w, t.question_num, "raise", NumText(t.question_num) \o <<".">>)
    /\ UNCHANGED <<threads, stop_flag, doc, page, call>>

\* analyze_question and parse_answer for one question of the window
ScrollAsk(w) ==
    LET t == Returned(th[w]) IN
    /\ t.pc = "s_ask"
    /\ \/ /\ \E answer \in Answers :
               th' = [th EXCEPT ![w] = ScrollClicks(t, parse_answer(answer))]
          /\ ext' = Asked(w, t.question_num, "ok", QuestionText(t))
       \/ /\ th' = [th EXCEPT ![w] = MarkAnswered(t)]
          /\ ext' = Asked(w, t.question_num, "raise", QuestionText(t))
    /\ UNCHANGED <<threads, stop_flag, doc, page, call>>

\* mutant: a token without a coordinate ends the loop over answer_options
ScrollClickGivesUp(w) ==
    LET t == Returned(th[w])
        option == Head(t.tokens)
    IN
    /\ t.pc = "s_click"
    /\ IF Resolves(OptionsOf(t), option)
       THEN \E ok \in BOOLEAN :
               /\ th' = [th EXCEPT ![w] =
                           IF ok THEN ScrollClicks(t, Tail(t.tokens)) ELSE MarkAnswered(t)]
               /\ ext' = ClickedAt(w, t.question_num, Res(ok), OptionsOf(t)[option[1]])
       ELSE /\ th' = [th EXCEPT ![w] = MarkAnswered(t)]
            /\ ext' = NoExt(w)
    /\ UNCHANGED <<threads, stop_flag, doc, page, call>>

\* mutant: the loop over answer_options gives up when the stop flag is set
ScrollClickChecksStop(w) ==
    LET t == Returned(th[w])
        option == Head(t.tokens)
    IN
    /\ t.pc = "s_click"
    /\ IF stop_flag
       THEN /\ th' = [th EXCEPT ![w] = MarkAnswered(t)]
            /\ ext' = NoExt(w)
       ELSE IF Resolves(OptionsOf(t), option)
       THEN \E ok \in BOOLEAN :
               /\ th' = [th EXCEPT ![w] =
                           IF ok THEN ScrollClicks(t, Tail(t.tokens)) ELSE MarkAnswered(t)]
               /\ ext' = ClickedAt(w, t.question_num, Res(ok), OptionsOf(t)[option[1]])
       ELSE /\ th' = [th EXCEPT ![w] = ScrollClicks(t, Tail(t.tokens))]
            /\ ext' = NoExt(w)
    /\ UNCHANGED <<threads, stop_flag, doc, page, call>>

\* one pass of the loop over answer_options: a click, or a warning
ScrollClick(w) ==
    LET t == Returned(th[w])
        option == Head(t.tokens)
    IN
    /\ t.pc = "s_click"
    /\ IF Resolves(OptionsOf(t), option)
       THEN \E ok \in BOOLEAN :
               /\ th' = [th EXCEPT ![w] =
                           IF ok THEN ScrollClicks(t, Tail(t.tokens)) ELSE MarkAnswered(t)]
               /\ ext' = ClickedAt(w, t.question_num, Res(ok), OptionsOf(t)[option[1]])
       ELSE /\ th' = [th EXCEPT ![w] = ScrollClicks(t, Tail(t.tokens))]
            /\ ext' = NoExt(w)
    /\ UNCHANGED <<threads, stop_flag, doc, page, call>>

\* the page position after pyautogui.scroll(-(distance // 120))
Scrolled(p, distance) ==
    Max2(0, Min2(MaxTop(doc), p + (distance \div WheelUnit) * WheelUnit))

\* mutant: the exception of _scroll_page ends the thread, uncaught
ScrollPageEscapes(w) ==
    LET t == Returned(th[w]) IN
    /\ t.pc = "s_scroll"
    /\ \E ok \in BOOLEAN :
        /\ th' = [th EXCEPT ![w] =
                    IF ok THEN [t EXCEPT !.pc = "s_top", !.dist = 0]
                    ELSE [t EXCEPT !.pc = "dead", !.why = "raised"]]
        /\ page' = IF ok THEN Scrolled(page, t.dist) ELSE page
        /\ ext' = Ext(w, IF t.dist \div WheelUnit # 0 THEN "scroll" ELSE "moveTo", 0, Res(ok))
    /\ UNCHANGED <<threads, stop_flag, doc, call>>

\* _scroll_page; its exception is not caught by the loop
ScrollPage(w) ==
    LET t == Returned(th[w]) IN
    /\ t.pc = "s_scroll"
    /\ \E ok \in BOOLEAN :
        /\ th' = [th EXCEPT ![w] =
                    IF ok THEN [t EXCEPT !.pc = "s_top", !.dist = 0] ELSE Leave(t, "raised")]
        /\ page' = IF ok THEN Scrolled(page, t.dist) ELSE page
        /\ ext' = Ext(w, IF t.dist \div WheelUnit # 0 THEN "scroll" ELSE "moveTo", 0, Res(ok))
    /\ UNCHANGED <<threads, stop_flag, doc, call>>

(***************************************************************************)
(* The fixed-page loop (_answering_loop_normal_mode and                    *)
(* _answer_single_question)                                                *)
(***************************************************************************)
\* mutant: the stop flag is not checked at the top of an iteration
FixedTopNoStop(w) ==
    LET t == th[w] IN
    /\ t.pc = "n_top"
    /\ th' = [th EXCEPT ![w] =
                IF t.i > t.cfg.total_questions THEN Leave(t, "done")
                ELSE [t EXCEPT !.pc = "n_capture"]]
    /\ ext' = NoExt(w)
    /\ UNCHANGED <<threads, stop_flag, doc, page, call>>

\* the for statement and the stop check at the top of an iteration
FixedTop(w) ==
    LET t == th[w] IN
    /\ t.pc = "n_top"
    /\ th' = [th EXCEPT ![w] =
                IF t.i > t.cfg.total_questions THEN Leave(t, "done")
                ELSE IF stop_flag THEN Leave(t, "stop")
                ELSE [t EXCEPT !.pc = "n_capture"]]
    /\ ext' = NoExt(w)
    /\ UNCHANGED <<threads, stop_flag, doc, page, call>>

\* the end of an iteration, normal or through the except clause: on to i + 1
NextIteration(t) ==
    [t EXCEPT !.pc = "n_top", !.i = @ + 1, !.tokens = <<>>, !.ocr = "none", !.capTop = 0]

\* mutant: a failed iteration is tried again
FailIterationAgain(t) == [NextIteration(t) EXCEPT !.i = t.i, !.errors = @ \cup {t.i}]

\* the except clause of the loop: the iteration failed, on to i + 1
FailIteration(t) == [NextIteration(t) EXCEPT !.errors = @ \cup {t.i}]

\* mutant: the exception of a failed capture is not caught by the loop
FixedCaptureUncaught(w) ==
    LET t == Returned(th[w]) IN
    /\ t.pc = "n_capture"
    /\ \E ok \in BOOLEAN :
        /\ th' = [th EXCEPT ![w] =
                    IF ok THEN [t EXCEPT !.pc = "n_ocr", !.capTop = page]
                    ELSE Leave(t, "raised")]
        /\ ext' = Ext(w, "capture", t.i, Res(ok))
    /\ UNCHANGED <<threads, stop_flag, doc, page, call>>

\* 1. capture_region(region)
FixedCapture(w) ==
    LET t == Returned(th[w]) IN
    /\ t.pc = "n_capture"
    /\ \E ok \in BOOLEAN :
        /\ th' = [th EXCEPT ![w] =
                    IF ok THEN [t EXCEPT !.pc = "n_ocr", !.capTop = page]
                    ELSE FailIteration(t)]
        /\ ext' = Ext(w, "capture", t.i, Res(ok))
    /\ UNCHANGED <<threads, stop_flag, doc, page, call>>

\* 2. recognize_text: a dict, a plain string, or an exception
FixedRecognize(w) ==
    LET t == Returned(th[w]) IN
    /\ t.pc = "n_ocr"
    /\ \E r \in {"dict", "blank", "plain", "raise"} :
        /\ th' = [th EXCEPT ![w] =
                    IF r = "raise" THEN FailIteration(t)
                    ELSE [t EXCEPT !.pc = "n_ask", !.ocr = r]]
        /\ ext' = Ext(w, "ocr", t.i, IF r = "dict" THEN "ok" ELSE r)
    /\ UNCHANGED <<threads, stop_flag, doc, page, call>>

\* the clicks left for this question, or on to the next button
FixedClicks(t, toks) == [t EXCEPT !.pc = IF toks = <<>> THEN "n_next" ELSE "n_click", !.tokens = toks]

\* 3. analyze_question, which rejects an empty text, and parse_answer
FixedAsk(w) ==
    LET t == Returned(th[w]) IN
    /\ t.pc = "n_ask"
    /\ \/ /\ ~TextEmpty(t)
          /\ \E answer \in Answers :
               th' = [th EXCEPT ![w] = FixedClicks(t, parse_answer(answer))]
          /\ ext' = Ext(w, "ask", t.i, "ok")
       \/ /\ th' = [th EXCEPT ![w] = FailIteration(t)]
          /\ ext' = Ext(w, "ask", t.i, "raise")
    /\ UNCHANGED <<threads, stop_flag, doc, page, call>>

\* mutant: a click that fails is logged and the question goes on to the next
\* button
FixedClickFailsOn(w) ==
    LET t == Returned(th[w])
        option == Head(t.tokens)
    IN
    /\ t.pc = "n_click"
    /\ IF ~HasOptions(t)
       THEN /\ th' = [th EXCEPT ![w] = FailIteration(t)]
            /\ ext' = NoExt(w)
       ELSE IF Resolves(OptionsOf(t), option)
       THEN \E ok \in BOOLEAN :
               /\ th' = [th EXCEPT ![w] =
                           IF ok THEN FixedClicks(t, Tail(t.tokens)) ELSE FixedClicks(t, <<>>)]
               /\ ext' = ClickedAt(w, t.i, Res(ok), OptionsOf(t)[option[1]])
       ELSE /\ th' = [th EXCEPT ![w] = FixedClicks(t, Tail(t.tokens))]
            /\ ext' = NoExt(w)
    /\ UNCHANGED <<threads, stop_flag, doc, page, call>>

\* 4. one pass of the loop over answer_options
FixedClick(w) ==
    LET t == Returned(th[w])
        option == Head(t.tokens)
    IN
    /\ t.pc = "n_click"
    /\ IF ~HasOptions(t)
       THEN \* option in None raises TypeError
            /\ th' = [th EXCEPT ![w] = FailIteration(t)]
            /\ ext' = NoExt(w)
       ELSE IF Resolves(OptionsOf(t), option)
       THEN \E ok \in BOOLEAN :
               /\ th' = [th EXCEPT ![w] =
                           IF ok THEN FixedClicks(t, Tail(t.tokens)) ELSE FailIteration(t)]
               /\ ext' = ClickedAt(w, t.i, Res(ok), OptionsOf(t)[option[1]])
       ELSE /\ th' = [th EXCEPT ![w] = FixedClicks(t, Tail(t.tokens))]
            /\ ext' = NoExt(w)
    /\ UNCHANGED <<threads, stop_flag, doc, page, call>>

\* mutant: the next button is clicked after the last question too
ClicksNextAlways(t) == ~t.cfg.auto_next /\ t.cfg.manual

\* 5. the next button is clicked unless last, auto_next or no button marked
ClicksNext(t) == t.i # t.cfg.total_questions /\ ~t.cfg.auto_next /\ t.cfg.manual

\* _answer_single_question returned: on to the sleep between two questions
QuestionDone(t) == [t EXCEPT !.pc = "n_sleep", !.tokens = <<>>, !.ocr = "none", !.capTop = 0]

\* click_position(next_button_pos): the click is recorded, and its exception
\* fails the iteration
NextClicked(t, ok) ==
    LET u == [t EXCEPT !.nexts = Append(@, t.i)]
    IN  IF ok THEN QuestionDone(u) ELSE FailIteration(u)

FixedNext(w) ==
    LET t == Returned(th[w]) IN
    /\ t.pc = "n_next"
    /\ IF ClicksNext(t)
       THEN \E ok \in BOOLEAN :
               /\ th' = [th EXCEPT ![w] = NextClicked(t, ok)]
               /\ ext' = Ext(w, "next", t.i, Res(ok))
       ELSE /\ th' = [th EXCEPT ![w] = QuestionDone(t)]
            /\ ext' = NoExt(w)
    /\ UNCHANGED <<threads, stop_flag, doc, page, call>>

\* time.sleep(interval) after a question that was answered, unless it was the
\* last one or the stop flag is set
FixedSleep(w) ==
    LET t == th[w] IN
    /\ t.pc = "n_sleep"
    /\ th' = [th EXCEPT ![w] = NextIteration(t)]
    /\ ext' = IF t.i # t.cfg.total_questions /\ ~stop_flag
              THEN Ext(w, "sleep", t.i, "ok")
              ELSE NoExt(w)
    /\ UNCHANGED <<threads, stop_flag, doc, page, call>>

(***************************************************************************)
(* Specifications                                                          *)
(***************************************************************************)
\* a step of worker thread w
Worker(w) ==
    \/ ScrollTop(w)
    \/ ScrollCapture(w)
    \/ ScrollRecognize(w)
    \/ ScrollQuestionTop(w)
    \/ ScrollAsk(w)
    \/ ScrollClick(w)
    \/ ScrollPage(w)
    \/ FixedTop(w)
    \/ FixedCapture(w)
    \/ FixedRecognize(w)
    \/ FixedAsk(w)
    \/ FixedClick(w)
    \/ FixedNext(w)
    \/ FixedSleep(w)
    \/ ThreadFinally(w)

\* the stop request and the steps of the worker threads
Steps ==
    \/ stop_answering
    \/ \E w \in threads : ScrollTop(w)
    \/ \E w \in threads : ScrollCapture(w)
    \/ \E w \in threads : ScrollRecognize(w)
    \/ \E w \in threads : ScrollQuestionTop(w)
    \/ \E w \in threads : ScrollAsk(w)
    \/ \E w \in threads : ScrollClick(w)
    \/ \E w \in threads : ScrollPage(w)
    \/ \E w \in threads : FixedTop(w)
    \/ \E w \in threads : FixedCapture(w)
    \/ \E w \in threads : FixedRecognize(w)
    \/ \E w \in threads : FixedAsk(w)
    \/ \E w \in threads : FixedClick(w)
    \/ \E w \in threads : FixedNext(w)
    \/ \E w \in threads : FixedSleep(w)
    \/ \E w \in threads : ThreadFinally(w)

Next ==
    \/ \E w \in threads, c \in Configs : start_answering(w, c)
    \/ Steps

\* one worker thread at a time: the initiator starts a session only when
\* none is alive, and may request a stop at any time
Init ==
    /\ threads = {1}
    /\ th = [w \in {1} |-> Unborn]
    /\ stop_flag = FALSE
    /\ doc \in Docs
    /\ page = 0
    /\ ext = NoExt(0)
    /\ call = NoCall

Spec == Init /\ [][Next]_vars

\* scroll sessions over a document of one question, with a running worker
\* thread: the thread, when it can take a step, eventually takes one (the
\* scheduler runs it, and every external call returns)
ScrollConfigs ==
    {c \in Configs : /\ c.scroll_mode
                     /\ c.ocr_mode = "accurate_basic"
                     /\ c.scroll_overlap = DefaultOverlap}

FairInit ==
    /\ threads = {1}
    /\ th = [w \in {1} |-> Unborn]
    /\ stop_flag = FALSE
    /\ doc = [lines |-> DocFrom(1, 1, 250), height |-> 290]
    /\ page = 0
    /\ ext = NoExt(0)
    /\ call = NoCall

ScrollNext ==
    \/ \E c \in ScrollConfigs : start_answering(1, c)
    \/ stop_answering
    \/ ScrollTop(1)
    \/ ScrollCapture(1)
    \/ ScrollRecognize(1)
    \/ ScrollQuestionTop(1)
    \/ ScrollAsk(1)
    \/ ScrollClick(1)
    \/ ScrollPage(1)
    \/ ThreadFinally(1)

FairSpec == FairInit /\ [][ScrollNext]_vars /\ WF_vars(Worker(1))

\* fixed-page sessions with a running worker thread: the thread, when it can
\* take a step, eventually takes one
FixedConfigs == {c \in Configs : ~c.scroll_mode}

FixedLoopNext ==
    \/ \E c \in FixedConfigs : start_answering(1, c)
    \/ stop_answering
    \/ FixedTop(1)
    \/ FixedCapture(1)
    \/ FixedRecognize(1)
    \/ FixedAsk(1)
    \/ FixedClick(1)
    \/ FixedNext(1)
    \/ FixedSleep(1)
    \/ ThreadFinally(1)

FixedSpec == FairInit /\ [][FixedLoopNext]_vars /\ WF_vars(Worker(1))

\* several worker threads: the initiator calls start_answering and
\* stop_answering in any order; sessions of one question on a short document
MultiConfigs ==
    {c \in Configs : /\ c.total_questions = 1
                     /\ c.scroll_overlap = DefaultOverlap
                     /\ c.ocr_mode = "accurate_basic"}

MultiInit ==
    /\ threads = 1..MaxThreads
    /\ th = [w \in 1..MaxThreads |-> Unborn]
    /\ stop_flag = FALSE
    /\ doc = [lines |-> DocFrom(1, 1, 250), height |-> 290]
    /\ page = 0
    /\ ext = NoExt(0)
    /\ call = NoCall

MultiNext ==
    \/ \E w \in threads, c \in MultiConfigs : start_answering(w, c)
    \/ \E w \in threads : Invoke(w)
    \/ Steps

MultiSpec == MultiInit /\ [][MultiNext]_vars

\* calculate_scroll_distance applied on its own to question positions ys,
\* region height h and overlap o
QuestionsAt(ys) ==
    LET ordered == SortedSeq(ys)
    IN  [q \in 1..Len(ordered) |-> [y |-> ordered[q]]]

ScrollDistInit ==
    /\ threads = {}
    /\ th = [w \in {} |-> Unborn]
    /\ stop_flag = FALSE
    /\ doc = [lines |-> <<>>, height |-> 0]
    /\ page = 0
    /\ ext = NoExt(0)
    /\ call \in {[fn |-> "args", h |-> h, o |-> o, ys |-> ys, out |-> 0] :
                    h \in 1..MaxArg, o \in 0..MaxArg,
                    ys \in {S \in SUBSET (0..MaxArg) : Cardinality(S) <= 2}}

ApplyScrollDistance ==
    /\ call.fn = "args"
    /\ call' = [call EXCEPT !.fn = "calculate_scroll_distance",
                            !.out = calculate_scroll_distance(QuestionsAt(call.ys), call.h, call.o)]
    /\ UNCHANGED <<threads, th, stop_flag, doc, page, ext>>

ScrollDistNext == ApplyScrollDistance

ScrollDistSpec == ScrollDistInit /\ [][ScrollDistNext]_vars

\* parse_answer applied on its own to the texts of at most MaxLen characters
\* over commas, blanks, letters and a non-ASCII marker
AnswerChars == {"A", "C", ",", " ", "U5BF9"}

AnswerTexts == UNION {[1..n -> AnswerChars] : n \in 0..MaxLen}

ParseInit ==
    /\ threads = {}
    /\ th = [w \in {} |-> Unborn]
    /\ stop_flag = FALSE
    /\ doc = [lines |-> <<>>, height |-> 0]
    /\ page = 0
    /\ ext = NoExt(0)
    /\ call \in {[fn |-> "args", answer |-> a, out |-> <<>>] : a \in AnswerTexts}

ApplyParseAnswer ==
    /\ call.fn = "args"
    /\ call' = [call EXCEPT !.fn = "parse_answer", !.out = parse_answer(call.answer)]
    /\ UNCHANGED <<threads, th, stop_flag, doc, page, ext>>

ParseNext == ApplyParseAnswer

ParseSpec == ParseInit /\ [][ParseNext]_vars

\* the bounding boxes of the words of a recognition result given to an
\* extraction on its own
Boxes ==
    { [left |-> 20, top |-> 30, width |-> 41, height |-> 20],
      [left |-> 100, top |-> 200, width |-> 40, height |-> 21] }

\* words_result lists of at most MaxWords words, texts drawn from texts
WordLists(texts) ==
    UNION {[1..n -> {[words |-> t, location |-> b] : t \in texts, b \in Boxes}] :
              n \in 0..MaxWords}

\* _extract_option_positions applied on its own: marker words with each
\* delimiter, a bare marker, a padded one, and words that are no marker
OptionTexts ==
    { <<"A", ".">>, <<"A">>, <<"B", "U3001">>, <<" ", "A", ")">>,
      <<"U5BF9", "UFF09", "x">>, <<"A", "B">>, <<"x", "A", ".">> }

OptionRegions == { <<0, 0, 800, 600>>, <<10, 20, 810, 620>> }

OptionInit ==
    /\ threads = {}
    /\ th = [w \in {} |-> Unborn]
    /\ stop_flag = FALSE
    /\ doc = [lines |-> <<>>, height |-> 0]
    /\ page = 0
    /\ ext = NoExt(0)
    /\ call \in {[fn |-> "args", words |-> ws, region |-> r, out |-> <<>>] :
                    ws \in WordLists(OptionTexts), r \in OptionRegions}

ApplyExtractOptions ==
    /\ call.fn = "args"
    /\ call' = [call EXCEPT !.fn = "extract_option_positions",
                            !.out = extract_option_positions(call.words, call.region)]
    /\ UNCHANGED <<threads, th, stop_flag, doc, page, ext>>

OptionNext == ApplyExtractOptions

OptionSpec == OptionInit /\ [][OptionNext]_vars

\* _extract_question_numbers applied on its own: numbers in each of the five
\* shapes, with one and two digits, padded, and words that are no number
QuestionTexts ==
    { <<"1", ".">>, <<"1", "U3001">>, <<"(", "1", ")">>, <<"UFF08", "2", "UFF09">>,
      <<"1", ")">>, <<"2", "UFF09">>, <<"1", ".", "x">>, <<" ", "2", ".">>,
      <<"1", "2", ".">>, <<"1">>, <<"x", "1", ".">>, <<"(", "1", ")", "x">> }

QuestionInit ==
    /\ threads = {}
    /\ th = [w \in {} |-> Unborn]
    /\ stop_flag = FALSE
    /\ doc = [lines |-> <<>>, height |-> 0]
    /\ page = 0
    /\ ext = NoExt(0)
    /\ call \in {[fn |-> "args", words |-> ws, out |-> <<>>] :
                    ws \in WordLists(QuestionTexts)}

ApplyExtractQuestions ==
    /\ call.fn = "args"
    /\ call' = [call EXCEPT !.fn = "extract_question_numbers",
                            !.out = extract_question_numbers(call.words)]
    /\ UNCHANGED <<threads, th, stop_flag, doc, page, ext>>

QuestionNext == ApplyExtractQuestions

QuestionSpec == QuestionInit /\ [][QuestionNext]_vars

\* the resolution of one token of an answer against an option map, applied
\* on its own: letters, the two boolean markers, and the other words of the
\* boolean vocabulary in several cases
Tokens ==
    { <<"A">>, <<"B">>, <<"E">>, <<"U5BF9">>, <<"U9519">>,
      <<"U6B63", "U786E">>, <<"U9519", "U8BEF">>,
      <<"T", "R", "U", "E">>, <<"t", "r", "u", "e">>, <<"T", "r", "u", "e">>,
      <<"F", "A", "L", "S", "E">>, <<"f", "a", "l", "s", "e">> }

OptionMaps ==
    UNION {[ls -> {<<40, 40>>, <<120, 210>>}] :
              ls \in {{}, {"A", "B"}, {"U5BF9", "U9519"}, {"U5BF9"}}}

ResolveInit ==
    /\ threads = {}
    /\ th = [w \in {} |-> Unborn]
    /\ stop_flag = FALSE
    /\ doc = [lines |-> <<>>, height |-> 0]
    /\ page = 0
    /\ ext = NoExt(0)
    /\ call \in {[fn |-> "args", option |-> o, option_positions |-> m,
                   clicked |-> FALSE, at |-> <<0, 0>>] :
                    o \in Tokens, m \in OptionMaps}

\* if option in option_positions: click_position(x, y); else: a warning
ApplyResolve ==
    /\ call.fn = "args"
    /\ call' = IF Resolves(call.option_positions, call.option)
               THEN [call EXCEPT !.fn = "resolve", !.clicked = TRUE,
                                 !.at = call.option_positions[call.option[1]]]
               ELSE [call EXCEPT !.fn = "resolve"]
    /\ UNCHANGED <<threads, th, stop_flag, doc, page, ext>>

ResolveNext == ApplyResolve

ResolveSpec == ResolveInit /\ [][ResolveNext]_vars

(***************************************************************************)
(* The start/stop button of the main window (_on_start_button_click),      *)
(* applied to the settings of the form                                     *)
(***************************************************************************)
\* the settings the handler reads: the keys of the oracle and of the selected
\* recognition mode, the region, the marked option positions, the interval,
\* the total, the scroll settings, the answering mode and the recognition mode
Forms ==
    [api_key : BOOLEAN, ocr_keys : BOOLEAN, region : BOOLEAN, marked : BOOLEAN,
     interval_ok : BOOLEAN, scroll_ok : BOOLEAN, total_questions : 0..MaxTotal,
     answering_mode : {"fixed", "scroll"},
     ocr_mode : {"general_basic", "accurate_basic"}]

\* a local variable of the handler that has not been assigned yet
Unbound == "unbound"

\* the arguments the handler passes to start_answering
ConfigOf(form) ==
    [scroll_mode |-> form.answering_mode = "scroll",
     total_questions |-> form.total_questions,
     scroll_overlap |-> DefaultOverlap,
     ocr_mode |-> form.ocr_mode,
     manual |-> form.answering_mode = "fixed" /\ form.ocr_mode = "general_basic",
     auto_next |-> FALSE]

HandlerInit ==
    /\ threads = {1}
    /\ th = [w \in {1} |-> Unborn]
    /\ stop_flag = FALSE
    /\ doc = [lines |-> DocFrom(1, 1, 250), height |-> 290]
    /\ page = 0
    /\ ext = NoExt(0)
    /\ call \in [fn : {"on_start_button_click"}, form : Forms, is_running : {FALSE},
                  clicks : {0}, shown : {"none"}]

\* the handler returns after showing the message box shown
Shows(shown) ==
    /\ call' = [call EXCEPT !.clicks = 1, !.shown = shown,
                            !.is_running = IF shown = "start_failed" THEN FALSE ELSE @]
    /\ ext' = NoExt(0)
    /\ UNCHANGED <<threads, th, stop_flag, doc, page>>

\* the handler with the session idle: the checks of the try block in their
\* order.  scroll_mode is a local of the handler, assigned after the checks
\* of the interval and the total; the check of the option positions reads it
\* before, while it is unbound, and the error raised is caught by the except
\* clause, which reports a start failure.
StartClicked ==
    LET form == call.form
        scroll_mode == Unbound
    IN  IF ~form.api_key \/ ~form.ocr_keys \/ ~form.region
        THEN Shows("config_error")
        ELSE IF scroll_mode = Unbound
        THEN Shows("start_failed")
        ELSE IF /\ form.answering_mode = "fixed" /\ form.ocr_mode = "general_basic"
                /\ ~form.marked
        THEN Shows("config_error")
        ELSE IF ~form.interval_ok \/ form.total_questions <= 0
        THEN Shows("config_error")
        ELSE IF form.answering_mode = "scroll" /\ ~form.scroll_ok
        THEN Shows("config_error")
        ELSE /\ call' = [call EXCEPT !.clicks = 1, !.is_running = TRUE]
             /\ start_answering(1, ConfigOf(form))

\* the handler with a session running: the stop branch
StopClicked ==
    /\ call' = [call EXCEPT !.clicks = 1, !.is_running = FALSE]
    /\ stop_answering

on_start_button_click ==
    /\ call.fn = "on_start_button_click"
    /\ IF ~call.is_running THEN StartClicked ELSE StopClicked

HandlerNext == on_start_button_click

HandlerSpec == HandlerInit /\ [][HandlerNext]_vars

(***************************************************************************)
(* Properties                                                              *)
(***************************************************************************)
\* the step is taken by worker thread w
StepOf(w) == ext'.w = w

InScroll(w) == th[w].cfg.scroll_mode

InFixed(w) == th[w].pc # "unborn" /\ ~th[w].cfg.scroll_mode

\* question_numbers of the window worker thread w holds
SeenBy(w) == extract_question_numbers(WordsOf(th[w]))

\* C1: in a scroll session every oracle request and every option click made
\* on behalf of question id q is made while q is not in the answered set, so
\* an id that has been marked answered is never asked or clicked again, also
\* when a later window shows it again.
C1_AtMostOnce ==
    [][\A w \in threads :
          (InScroll(w) /\ StepOf(w) /\ ext'.kind \in {"ask", "click"})
              => ext'.q \notin th[w].answered_questions]_vars

\* C1 witness: a window that shows only ids already answered has just been
\* recognized, and the worker scrolls on without answering.
C1_Witness ==
    \E w \in threads :
        /\ InScroll(w) /\ th[w].pc = "s_scroll"
        /\ ext = Ext(w, "ocr", 0, "ok")
        /\ DOMAIN SeenBy(w) # {}
        /\ DOMAIN SeenBy(w) \subseteq th[w].answered_questions

\* C3: fixed loop: a step at the top of an iteration that finds the stop flag
\* set leaves the loop, and a worker that left the loop this way makes no
\* external call any more: its only step is the end of the thread.
C3_StopAtTop ==
    [][\A w \in threads : InFixed(w) =>
          /\ (th[w].pc = "n_top" /\ stop_flag /\ StepOf(w)) => th'[w].pc = "t_finally"
          /\ (th[w].pc = "t_finally" /\ th[w].why = "stop" /\ StepOf(w))
                => (ext'.kind = "none" /\ th'[w].pc = "dead")]_vars

\* C3 witness: the fixed loop was left at the top of its second iteration
\* because the stop flag was set.
C3_Witness ==
    \E w \in threads :
        /\ InFixed(w) /\ th[w].pc = "t_finally" /\ th[w].why = "stop"
        /\ th[w].i = 2 /\ th[w].cfg.total_questions >= 2

\* C8: scroll loop: every id whose processing has begun is in the answered
\* set or is the one being processed; a failed oracle call or click marks the
\* id answered and returns to the head of the for loop with the rest of the
\* window unchanged, and the head goes on to the next id of the window.
C8_BegunIsAnswered ==
    [][\A w \in threads : (InScroll(w) /\ StepOf(w) /\ th'[w].pc # "unborn") =>
          /\ \A q \in th'[w].begun :
                \/ q \in th'[w].answered_questions
                \/ th'[w].question_num = q /\ th'[w].pc \in {"s_ask", "s_click"}
          /\ (ext'.kind \in {"ask", "click"} /\ ext'.res = "raise")
                => /\ ext'.q \in th'[w].answered_questions
                   /\ th'[w].pc = "s_qtop"
                   /\ th'[w].pending = th[w].pending
          /\ (/\ th[w].pc = "s_qtop" /\ th[w].pending # <<>> /\ ~stop_flag
              /\ Cardinality(th[w].answered_questions) < th[w].cfg.total_questions)
                => /\ th'[w].pc = "s_ask"
                   /\ th'[w].question_num = Head(th[w].pending)]_vars

\* C8 witness: the oracle call or a click of a question has just failed, the
\* question is in the answered set, and ids of the same window are left.
C8_Witness ==
    \E w \in threads :
        /\ InScroll(w) /\ th[w].pc = "s_qtop"
        /\ ext.w = w /\ ext.kind \in {"ask", "click"} /\ ext.res = "raise"
        /\ ext.q \in th[w].answered_questions
        /\ th[w].pending # <<>>

\* C9: fixed loop: a step in which the capture, the recognition, the oracle
\* call, an option click or the next click fails (or the click loop raises)
\* is followed by the top of iteration i + 1; the loop is never left through
\* a failure.
C9_FailureContinues ==
    [][\A w \in threads : (InFixed(w) /\ StepOf(w)) =>
          /\ ext'.res = "raise"
                => /\ th'[w].pc = "n_top"
                   /\ th'[w].i = th[w].i + 1
          /\ th'[w].why \in {"none", "done", "stop"}]_vars

\* C9 witness: an external call of the first iteration has failed and the
\* worker is at the top of the second iteration.
C9_Witness ==
    \E w \in threads :
        /\ InFixed(w) /\ th[w].pc = "n_top" /\ th[w].i = 2
        /\ ext.w = w /\ ext.res = "raise" /\ ext.q = 1

\* C10: scroll loop: a capture that fails, a recognition that fails and a
\* recognition result without position data each end the loop, and a worker
\* whose loop ended this way makes no external call any more: its only step
\* is the end of the thread.
C10_FatalEndsRun ==
    [][\A w \in threads : (InScroll(w) /\ StepOf(w)) =>
          /\ (ext'.kind = "capture" /\ ext'.res = "raise")
                => (th'[w].pc = "t_finally" /\ th'[w].why = "fatal")
          /\ (ext'.kind = "ocr" /\ ext'.res \in {"raise", "plain"})
                => (th'[w].pc = "t_finally" /\ th'[w].why = "fatal")
          /\ th[w].why = "fatal"
                => (ext'.kind = "none" /\ th'[w].pc = "dead")]_vars

\* C10 witness: a run that had answered a question was ended by a failed
\* capture or recognition.
C10_Witness ==
    \E w \in threads :
        /\ InScroll(w) /\ th[w].pc = "dead" /\ th[w].why = "fatal"
        /\ th[w].answered_questions # {}

\* C2: at most one worker thread is alive at any time, whatever the order of
\* the start and stop requests.
C2_OneWorker == Cardinality({w \in threads : Alive(w)}) <= 1

\* C4: a scroll session that has started eventually ends, given that its
\* worker keeps running and every external call returns.
C4_ScrollTerminates ==
    (th[1].cfg.scroll_mode /\ Alive(1)) ~> (th[1].pc = "dead")

\* the scroll distance has been computed for arguments with 0 <= o < h
Computed == call.fn = "calculate_scroll_distance" /\ 0 <= call.o /\ call.o < call.h

\* C5: with no question positions the distance is h - o.
C5_BlindStep == (Computed /\ call.ys = {}) => call.out = call.h - call.o

\* C5 witness: a blind step with a non-zero overlap has been computed.
C5_Witness == Computed /\ call.ys = {} /\ call.o > 0 /\ call.out = call.h - call.o

\* C6: with question positions the distance is at most h - o.
C6_AtMostWindow == (Computed /\ call.ys # {}) => call.out <= call.h - call.o

\* C6 witness: the last question lies so low that the clamp decides.
C6_Witness ==
    /\ Computed /\ call.ys # {}
    /\ SetMax(call.ys) - call.o > call.h - call.o
    /\ call.out = call.h - call.o

\* C7 as claimed: with question positions the distance is at least h / 2.
C7_AtLeastHalf == (Computed /\ call.ys # {}) => 2 * call.out >= call.h

\* C7 amended: with question positions the distance is at least the smaller
\* of h div 2 (the half rounded down) and h - o.
C7_AtLeastHalfOrWindow ==
    (Computed /\ call.ys # {}) => call.out >= Min2(call.h \div 2, call.h - call.o)

\* C7 witness: the last question lies so high that the half-height decides.
C7_Witness ==
    /\ Computed /\ call.ys # {}
    /\ SetMax(call.ys) - call.o < call.h \div 2
    /\ call.h \div 2 <= call.h - call.o
    /\ call.out = call.h \div 2

\* C11: a scroll run that a capture or recognition error aborted is never
\* reported as completed: the worker that left the loop for such an error ends
\* without the completion line in its log.
C11_FatalIsNotCompleted ==
    \A w \in threads :
        (th[w].cfg.scroll_mode /\ th[w].pc = "dead" /\ th[w].why = "fatal")
            => th[w].report # "completed"

\* a fixed-page session started without option coordinates in the recognition
\* mode that returns text only
NoCoordinates(t) ==
    /\ t.pc # "unborn"
    /\ ~t.cfg.scroll_mode
    /\ ~t.cfg.manual
    /\ t.cfg.ocr_mode = "general_basic"

\* C12: a fixed-page session without option coordinates and with the
\* recognition mode that gives no positions is rejected before its first
\* iteration: its worker never makes a capture, a recognition, an oracle
\* request or a click.
C12_RejectedBeforeLoop ==
    [][\A w \in threads :
          (NoCoordinates(th[w]) /\ StepOf(w)) => ext'.kind = "none"]_vars

\* a fixed-page session with marked coordinates, a next button and no
\* auto-advance
ClicksThrough(t) ==
    /\ t.pc # "unborn"
    /\ ~t.cfg.scroll_mode
    /\ t.cfg.manual
    /\ ~t.cfg.auto_next

\* the iterations whose question has been dealt with: those before i, and i
\* itself once the worker is at the sleep that follows its question
Finished(t) == IF t.pc = "n_sleep" THEN t.i ELSE t.i - 1

\* C13: in a fixed-page session of N questions with a next button and no
\* auto-advance, while no iteration has failed, the next clicks made so far
\* are exactly one for each finished iteration among 1..N-1, in order, and
\* none for iteration N: a session that ran through N iterations made N-1.
C13_NextClicks ==
    \A w \in threads :
        (ClicksThrough(th[w]) /\ th[w].errors = {})
            => th[w].nexts = [k \in 1..Min2(Finished(th[w]), th[w].cfg.total_questions - 1) |-> k]

\* C13 witness: a session of more than one question ran through all its
\* iterations without a failure and made its next clicks.
C13_Witness ==
    \E w \in threads :
        /\ ClicksThrough(th[w]) /\ th[w].errors = {}
        /\ th[w].pc = "dead" /\ th[w].why = "done"
        /\ th[w].cfg.total_questions >= 2
        /\ Len(th[w].nexts) = th[w].cfg.total_questions - 1

\* the answered count of a scroll session has reached its target
TargetReached(t) ==
    /\ t.cfg.scroll_mode
    /\ Cardinality(t.answered_questions) >= t.cfg.total_questions

\* C14: once the answered count of a scroll session has reached the target,
\* its worker makes no further external call (no oracle request, click,
\* scroll or capture) and only runs to its end.
C14_TargetEndsRun ==
    [][\A w \in threads :
          (TargetReached(th[w]) /\ StepOf(w))
              => /\ ext'.kind = "none"
                 /\ th'[w].pc \in {"s_qtop", "s_top", "t_finally", "dead"}]_vars

\* C14 witness: a session with target 2 answered both questions of its first
\* window and ended, the page never scrolled.
C14_Witness ==
    \E w \in threads :
        /\ TargetReached(th[w])
        /\ th[w].cfg.total_questions = 2
        /\ th[w].answered_questions = {1, 2}
        /\ th[w].capTop = 0 /\ page = 0
        /\ th[w].pc = "dead" /\ th[w].why = "target"

\* parse_answer has been applied to call.answer
Parsed == call.fn = "parse_answer"

HasComma(s) == \E k \in 1..Len(s) : s[k] = ","

\* s without its leading and trailing whitespace
Trimmed(s) ==
    LET ns == {k \in 1..Len(s) : ~IsSpace(s[k])}
    IN  IF ns = {} THEN <<>>
        ELSE SubSeq(s, CHOOSE a \in ns : \A b \in ns : a <= b, SetMax(ns))

\* the pieces of s between its commas, in order
PiecesOf(s) ==
    LET cs == SortedSeq({k \in 1..Len(s) : s[k] = ","})
        n == Len(cs)
        first(j) == IF j = 1 THEN 1 ELSE cs[j - 1] + 1
        last(j) == IF j = n + 1 THEN Len(s) ELSE cs[j] - 1
    IN  [j \in 1..(n + 1) |->
            IF first(j) > last(j) THEN <<>> ELSE SubSeq(s, first(j), last(j))]

NotEmpty(p) == p # <<>>

\* the trimmed, non-empty pieces of s, in order
TrimmedPieces(s) ==
    LET ps == PiecesOf(s)
    IN  SelectSeq([j \in 1..Len(ps) |-> Trimmed(ps[j])], NotEmpty)

\* C15: for an answer with a comma parse_answer returns its comma-separated
\* pieces, each trimmed, the empty ones dropped, in order; for any other
\* answer that is not blank it returns the one-element list of the trimmed
\* answer.
C15_ParseAnswer ==
    Parsed =>
        /\ HasComma(call.answer) => call.out = TrimmedPieces(call.answer)
        /\ (~HasComma(call.answer) /\ Trimmed(call.answer) # <<>>)
              => call.out = <<Trimmed(call.answer)>>

\* C15 witness: "A, C" was parsed into A and C.
C15_Witness ==
    /\ Parsed
    /\ call.answer = <<"A", ",", " ", "C">>
    /\ call.out = << <<"A">>, <<"C">> >>

\* C16: parse_answer returns the empty list for an empty answer and for an
\* answer of whitespace only, and no list it returns holds an empty token.
C16_BlankIsEmpty ==
    Parsed =>
        /\ Trimmed(call.answer) = <<>> => call.out = <<>>
        /\ \A k \in 1..Len(call.out) : call.out[k] # <<>>

\* _extract_option_positions has been applied to call.words
OptionsExtracted == call.fn = "extract_option_positions"

Labels == {"A", "B", "C", "D", "E", "F", "U5BF9", "U9519"}

\* word k of call.words is the marker l, alone or followed by a delimiter
IsLabel(k, l) ==
    LET text == Trimmed(call.words[k].words)
    IN  \/ text = <<l>>
        \/ /\ Len(text) >= 2
           /\ text[1] = l
           /\ text[2] \in {".", "U3001", "UFF09", ")"}

\* region origin + centre of the bounding box of word k
CentreOf(k) ==
    LET b == call.words[k].location
    IN  <<call.region[1] + b.left + (b.width \div 2),
          call.region[2] + b.top + (b.height \div 2)>>

\* C17: the labels of the result are exactly the markers some word shows,
\* alone or followed by one of the four delimiters, and each label is mapped
\* to the region origin plus the centre of the box of a word showing it (of
\* the word showing it, when there is one only); other words add nothing.
C17_OptionMarkers ==
    OptionsExtracted =>
        /\ DOMAIN call.out = {l \in Labels : \E k \in 1..Len(call.words) : IsLabel(k, l)}
        /\ \A l \in DOMAIN call.out :
              \E k \in 1..Len(call.words) : IsLabel(k, l) /\ call.out[l] = CentreOf(k)

\* C17 witness: "A." and "B" with the ideographic comma, in a region whose
\* origin is not the screen origin, give the centres of the two boxes.
C17_Witness ==
    /\ OptionsExtracted
    /\ Len(call.words) = 2
    /\ call.words[1].words = <<"A", ".">>
    /\ call.words[2].words = <<"B", "U3001">>
    /\ call.words[1].location # call.words[2].location
    /\ call.region[1] > 0 /\ call.region[2] > 0
    /\ call.out = [l \in {"A", "B"} |-> IF l = "A" THEN CentreOf(1) ELSE CentreOf(2)]

\* C18: when several words of one capture show the same label, the label
\* keeps the coordinate of the first of them in list order.
C18_FirstOptionKept ==
    OptionsExtracted =>
        \A l \in DOMAIN call.out :
            \A k \in 1..Len(call.words) :
                (IsLabel(k, l) /\ \A j \in 1..(k - 1) : ~IsLabel(j, l))
                    => call.out[l] = CentreOf(k)

\* _extract_question_numbers has been applied to call.words
QuestionsExtracted == call.fn = "extract_question_numbers"

AllDigits(s) == s # <<>> /\ \A k \in 1..Len(s) : IsDigit(s[k])

RECURSIVE Decimal(_)
\* the number a string of decimal digits denotes
Decimal(ds) ==
    IF ds = <<>> THEN 0
    ELSE 10 * Decimal(SubSeq(ds, 1, Len(ds) - 1)) + DigitVal(ds[Len(ds)])

\* word k of call.words shows question number n: "(N)" in either kind of
\* parentheses, or N followed by a delimiter (and by anything)
IsNumber(k, n) ==
    LET text == Trimmed(call.words[k].words)
    IN  \/ /\ Len(text) >= 3
           /\ text[1] \in {"(", "UFF08"}
           /\ text[Len(text)] \in {")", "UFF09"}
           /\ AllDigits(SubSeq(text, 2, Len(text) - 1))
           /\ n = Decimal(SubSeq(text, 2, Len(text) - 1))
        \/ \E d \in 1..(Len(text) - 1) :
              /\ AllDigits(SubSeq(text, 1, d))
              /\ text[d + 1] \in {".", "U3001", "UFF09", ")"}
              /\ n = Decimal(SubSeq(text, 1, d))

\* the numbers a result may hold
Numbers == 0..99

\* C19: the ids of the result are exactly the numbers N some word shows in
\* one of the shapes "N.", "N" with the ideographic comma, "(N)", "N)", or N
\* followed by a delimiter and more text; each id is mapped to the top offset
\* of a word showing it; a word of no such shape yields no id.
C19_QuestionMarkers ==
    QuestionsExtracted =>
        /\ DOMAIN call.out = {n \in Numbers : \E k \in 1..Len(call.words) : IsNumber(k, n)}
        /\ \A n \in DOMAIN call.out :
              \E k \in 1..Len(call.words) :
                  IsNumber(k, n) /\ call.out[n].y = call.words[k].location.top

\* C19 witness: "1.x" and a 2 in full-width parentheses give ids 1 and 2 at
\* the tops of their words.
C19_Witness ==
    /\ QuestionsExtracted
    /\ Len(call.words) = 2
    /\ call.words[1].words = <<"1", ".", "x">>
    /\ call.words[2].words = <<"UFF08", "2", "UFF09">>
    /\ call.words[1].location.top # call.words[2].location.top
    /\ DOMAIN call.out = {1, 2}
    /\ call.out[1].y = call.words[1].location.top
    /\ call.out[2].y = call.words[2].location.top

\* C20: when several words of one capture show the same number, whatever
\* their shapes, the id keeps the top offset of the first of them in list
\* order.
C20_FirstQuestionKept ==
    QuestionsExtracted =>
        \A n \in DOMAIN call.out :
            \A k \in 1..Len(call.words) :
                (IsNumber(k, n) /\ \A j \in 1..(k - 1) : ~IsNumber(j, n))
                    => call.out[n].y = call.words[k].location.top

\* C21: the answered set of a scroll session only grows: after every step of
\* the worker it holds every id it held before the step.
C21_AnsweredGrows ==
    [][\A w \in threads :
          (InScroll(w) /\ StepOf(w))
              => th[w].answered_questions \subseteq th'[w].answered_questions]_vars

\* C21 witness: a running scroll session has marked two ids, one after the
\* other.
C21_Witness ==
    \E w \in threads :
        /\ InScroll(w) /\ Alive(w)
        /\ th[w].answered_questions = {1, 2}

\* the ids of the questions whose marker lies at page offsets a..b-1
QuestionsBetween(a, b) ==
    LET all == extract_question_numbers(doc.lines)
    IN  {q \in DOMAIN all : a <= all[q].y /\ all[q].y < b}

\* a scroll session about to scroll onward, every window of which was read
\* in full so far
ScrollsOn(t) ==
    /\ t.cfg.scroll_mode
    /\ t.pc = "s_scroll"
    /\ ~t.unread

C23_OneCallInFlight == Cardinality({w \in threads : th[w].calling}) <= 1

\* the worker is inside the loop over the tokens of one answer
Clicking(t) == t.pc \in {"s_click", "n_click"}

\* the first token left has a coordinate in the option map in effect
HeadResolves(t) ==
    /\ t.pc = "n_click" => HasOptions(t)
    /\ Len(Head(t.tokens)) = 1
    /\ Head(t.tokens)[1] \in DOMAIN OptionsOf(t)

\* C24: inside the click sequence of one answer the stop flag has no effect:
\* whether it is set or not, the step of a worker with tokens left clicks the
\* first of them when it resolves, and after a click that succeeded the
\* sequence goes on with the tokens that follow, in either loop.
C24_ClicksRunThrough ==
    [][\A w \in threads :
          (StepOf(w) /\ Clicking(th[w]) /\ HeadResolves(th[w]))
              => /\ ext'.kind = "click"
                 /\ ext'.res = "ok"
                       => /\ th'[w].tokens = Tail(th[w].tokens)
                          /\ Tail(th[w].tokens) # <<>> => th'[w].pc = th[w].pc]_vars

\* C24 witness: a click was made with the stop flag already set, and the
\* sequence goes on with the token that follows.
C24_Witness ==
    \E w \in threads :
        /\ stop_flag
        /\ ext.w = w /\ ext.kind = "click" /\ ext.res = "ok"
        /\ Clicking(th[w]) /\ th[w].tokens # <<>>

\* C25: no error escapes a worker: a worker that has ended went through the
\* end of the thread function, where the stop callback was invoked exactly
\* once, and if an exception left its loop (a failed scroll) the error was
\* logged there; a worker still running has not invoked the callback.
C25_NoErrorEscapes ==
    \A w \in threads :
        /\ Alive(w) => th[w].callbacks = 0
        /\ th[w].pc = "dead"
              => /\ th[w].callbacks = 1
                 /\ th[w].why # "none"
                 /\ th[w].why = "raised" => th[w].report = "error"

\* C25 witness: a scroll failed, the worker logged the error, invoked the
\* stop callback once and ended.
C25_Witness ==
    \E w \in threads :
        /\ th[w].pc = "dead" /\ th[w].why = "raised"
        /\ th[w].report = "error" /\ th[w].callbacks = 1
        /\ ext.w = w

\* the boolean vocabulary: the words for yes and for no, TRUE and FALSE in
\* any case
Affirmative ==
    { <<"U5BF9">>, <<"U6B63", "U786E">>,
      <<"T", "R", "U", "E">>, <<"t", "r", "u", "e">>, <<"T", "r", "u", "e">> }

Negative ==
    { <<"U9519">>, <<"U9519", "U8BEF">>,
      <<"F", "A", "L", "S", "E">>, <<"f", "a", "l", "s", "e">> }

\* C26: a token of the affirmative vocabulary is clicked at the coordinate of
\* the affirmative option of the map, a token of the negative vocabulary at
\* that of the negative option; neither is left unresolved.
C26_BooleanVocabulary ==
    call.fn = "resolve" =>
        /\ (call.option \in Affirmative /\ "U5BF9" \in DOMAIN call.option_positions)
              => call.clicked /\ call.at = call.option_positions["U5BF9"]
        /\ (call.option \in Negative /\ "U9519" \in DOMAIN call.option_positions)
              => call.clicked /\ call.at = call.option_positions["U9519"]

\* the window the worker holds was recognised and shows no question number
NoMarker(t) ==
    /\ t.ocr \in {"dict", "blank"}
    /\ DOMAIN extract_question_numbers(WordsOf(t)) = {}

\* C27: scroll loop: the recognition of a window without question number
\* leads straight to the scroll, with distance region height - overlap handed
\* to the scroll operation; the next step of the worker is that scroll, and
\* after it the loop is back at its top; the answered set is unchanged
\* throughout, and no oracle request or click is made for the window.
C27_BlindScroll ==
    [][\A w \in threads : (InScroll(w) /\ StepOf(w)) =>
          /\ (th[w].pc = "s_ocr" /\ NoMarker(th'[w]))
                => /\ th'[w].pc = "s_scroll"
                   /\ th'[w].dist = region_height - th[w].cfg.scroll_overlap
                   /\ th'[w].answered_questions = th[w].answered_questions
          /\ (th[w].pc = "s_scroll" /\ NoMarker(th[w]))
                => /\ ext'.kind \in {"scroll", "moveTo"}
                   /\ th'[w].answered_questions = th[w].answered_questions
                   /\ ext'.res = "ok"
                         => /\ th'[w].pc = "s_top"
                            /\ page' = Scrolled(page, th[w].dist)]_vars

\* C27 witness: the worker is back at the top of the loop after the blind
\* scroll of a window without question number, the page moved.
C27_Witness ==
    \E w \in threads :
        /\ InScroll(w) /\ th[w].pc = "s_top"
        /\ ext.w = w /\ ext.kind = "scroll" /\ ext.res = "ok"
        /\ NoMarker(th[w])
        /\ page > th[w].capTop

\* the window the worker holds shows question numbers, all of them answered
AllAnswered(t) ==
    /\ t.ocr = "dict"
    /\ DOMAIN extract_question_numbers(WordsOf(t)) # {}
    /\ DOMAIN extract_question_numbers(WordsOf(t)) \subseteq t.answered_questions

\* C28: scroll loop: the ids of a window waiting to be processed are its
\* unanswered visible ids in strictly ascending order, each id is taken up
\* before every id that waits behind it; and the recognition of a window
\* whose visible ids are all answered leads straight to the scroll, by the
\* distance computed from the visible positions, with no oracle request or
\* click for the window.
C28_AscendingOrder ==
    [][\A w \in threads : (InScroll(w) /\ StepOf(w)) =>
          /\ \A j, k \in 1..Len(th'[w].pending) : j < k => th'[w].pending[j] < th'[w].pending[k]
          /\ th'[w].pc \in {"s_ask", "s_click"}
                => \A k \in 1..Len(th'[w].pending) : th'[w].question_num < th'[w].pending[k]
          /\ (th[w].pc = "s_ocr" /\ th'[w].pc = "s_qtop")
                => {th'[w].pending[k] : k \in 1..Len(th'[w].pending)}
                     = DOMAIN extract_question_numbers(WordsOf(th'[w]))
                           \ th[w].answered_questions
          /\ (th[w].pc = "s_ocr" /\ AllAnswered(th'[w]))
                => /\ th'[w].pc = "s_scroll"
                   /\ th'[w].dist =
                        calculate_scroll_distance(extract_question_numbers(WordsOf(th'[w])),
                                                  region_height, th[w].cfg.scroll_overlap)
          /\ (th[w].pc = "s_scroll" /\ AllAnswered(th[w]))
                => ext'.kind \in {"scroll", "moveTo"}]_vars

\* C28 witness: in a window showing ids 1 and 2 the worker, having answered
\* 1, asks for 2.
C28_Witness ==
    \E w \in threads :
        /\ InScroll(w) /\ th[w].pc = "s_ask"
        /\ th[w].question_num = 2
        /\ th[w].answered_questions = {1}
        /\ {1, 2} \subseteq DOMAIN SeenBy(w)

\* C29: scroll loop: the answered ids are never more than the target, and
\* neither are the ids taken up; an oracle request or click is made only
\* while the answered count is below the target, and when the count has
\* reached it at the head of the for loop the ids still waiting in the window
\* are dropped, never asked or clicked.
C29_WithinTarget ==
    [][\A w \in threads : (InScroll(w) /\ StepOf(w)) =>
          /\ Cardinality(th'[w].answered_questions) <= th[w].cfg.total_questions
          /\ Cardinality(th'[w].begun) <= th[w].cfg.total_questions
          /\ ext'.kind \in {"ask", "click"}
                => Cardinality(th[w].answered_questions) < th[w].cfg.total_questions
          /\ (/\ th[w].pc = "s_qtop"
              /\ Cardinality(th[w].answered_questions) >= th[w].cfg.total_questions)
                => /\ th'[w].pending = <<>>
                   /\ th'[w].begun = th[w].begun
                   /\ th'[w].pc = "s_top"]_vars

\* C29 witness: a session with target 1 ended with id 1 answered in a window
\* that shows ids 1 and 2; id 2 was never taken up.
C29_Witness ==
    \E w \in threads :
        /\ InScroll(w) /\ th[w].pc = "dead" /\ th[w].why = "target"
        /\ th[w].cfg.total_questions = 1
        /\ th[w].answered_questions = {1}
        /\ th[w].begun = {1}
        /\ {1, 2} \subseteq DOMAIN SeenBy(w)

\* the lines of the document inside the window captured at page position top
LinesIn(top) ==
    SelectSeq(doc.lines, LAMBDA l : top <= l.location.top /\ l.location.top < top + region_height)

RECURSIVE TextOf(_)
\* the words of lines, one line after the other, separated by newlines
TextOf(ls) ==
    IF ls = <<>> THEN <<>>
    ELSE Head(ls).words \o (IF Len(ls) = 1 THEN <<>> ELSE <<"\n">> \o TextOf(Tail(ls)))

\* region origin + centre of the box of the line of the window at top that
\* shows marker l last
OptionPointIn(top, l) ==
    LET ls == LinesIn(top)
        k == CHOOSE k \in 1..Len(ls) :
                /\ Head(ls[k].words) = l
                /\ \A j \in (k + 1)..Len(ls) : Head(ls[j].words) # l
        b == ls[k].location
    IN  <<Region[1] + b.left + (b.width \div 2),
          Region[2] + (b.top - top) + (b.height \div 2)>>

\* C30: scroll loop: an oracle request is made for the id being processed,
\* once (the step after taking the id up, and never again for it), with the
\* whole text of the window the worker holds, whatever the id; a click is
\* made at the coordinate the same window gives for the token.
C30_WindowText ==
    [][\A w \in threads : (InScroll(w) /\ StepOf(w)) =>
          /\ ext'.kind = "ask"
                => /\ th[w].pc = "s_ask"
                   /\ ext'.q = th[w].question_num
                   /\ ext'.text = TextOf(LinesIn(th[w].capTop))
          /\ th[w].pc = "s_ask" => ext'.kind = "ask" /\ th'[w].pc # "s_ask"
          /\ th'[w].pc = "s_ask"
                => /\ th[w].pc = "s_qtop"
                   /\ th'[w].question_num \notin th[w].begun
          /\ ext'.kind = "click"
                => ext'.at = OptionPointIn(th[w].capTop, Head(th[w].tokens)[1])]_vars

\* C30 witness: in a window showing ids 1 and 2 the oracle is asked about 2,
\* after 1 was answered, with the text of the whole window.
C30_Witness ==
    \E w \in threads :
        /\ InScroll(w)
        /\ ext.w = w /\ ext.kind = "ask" /\ ext.q = 2
        /\ 1 \in th[w].answered_questions
        /\ {1, 2} \subseteq DOMAIN SeenBy(w)
        /\ ext.text = TextOf(LinesIn(th[w].capTop))
        /\ Len(LinesIn(th[w].capTop)) = 6

\* the worker has an option map and the first token left has no coordinate in it
HeadUnresolved(t) ==
    /\ t.pc = "n_click" => HasOptions(t)
    /\ \/ Len(Head(t.tokens)) # 1
       \/ Head(t.tokens)[1] \notin DOMAIN OptionsOf(t)

\* C31: in both loops the pass of a token that has no coordinate in the
\* option map makes no click and no other external call and records no error;
\* the loop goes on with the tokens that follow, and when none follows the
\* question ends as a question whose clicks were all made (fixed loop: on to
\* the next button; scroll loop: marked answered).  A token that resolves is
\* clicked at its coordinate of the map, whatever was skipped before it.
C31_UnresolvedSkipped ==
    [][\A w \in threads : (StepOf(w) /\ Clicking(th[w])) =>
          /\ HeadUnresolved(th[w])
                => /\ ext'.kind = "none"
                   /\ th'[w].errors = th[w].errors
                   /\ th'[w].tokens = Tail(th[w].tokens)
                   /\ Tail(th[w].tokens) # <<>>
                         => /\ th'[w].pc = th[w].pc
                            /\ th'[w].question_num = th[w].question_num
                            /\ th'[w].i = th[w].i
                   /\ (Tail(th[w].tokens) = <<>> /\ th[w].pc = "n_click")
                         => th'[w].pc = "n_next" /\ th'[w].i = th[w].i
                   /\ (Tail(th[w].tokens) = <<>> /\ th[w].pc = "s_click")
                         => /\ th'[w].pc = "s_qtop"
                            /\ th[w].question_num \in th'[w].answered_questions
          /\ HeadResolves(th[w])
                => /\ ext'.kind = "click"
                   /\ ext'.at = OptionsOf(th[w])[Head(th[w].tokens)[1]]]_vars

\* C31 witness: the token E of the answer "E,A", which has no coordinate,
\* was passed without a call, and the token A, which has one, is the next to
\* be clicked.
C31_Witness ==
    \E w \in threads :
        /\ ext = NoExt(w)
        /\ Clicking(th[w])
        /\ th[w].tokens = << <<"A">> >>
        /\ HeadResolves(th[w])
        /\ th[w].errors = {}

\* C32: fixed loop: the step that ends an iteration other than the last, with
\* no stop requested, is the sleep of the interval, whether the iteration
\* succeeded or failed and was caught.
C32_SleepBetween ==
    [][\A w \in threads :
          (/\ InFixed(w) /\ StepOf(w)
           /\ th'[w].i = th[w].i + 1
           /\ th[w].i # th[w].cfg.total_questions
           /\ ~stop_flag)
              => ext'.kind = "sleep"]_vars

\* C33: scroll mode: the step in which the worker finds the stop flag set, at
\* the top of a window or at the head of the loop over the unanswered ids of
\* a window, leaves it at no call of a collaborator: no oracle request, click
\* or scroll follows before the worker ends.
C33_NoCallAfterStop ==
    [][\A w \in threads :
          (/\ InScroll(w) /\ StepOf(w) /\ stop_flag
           /\ \/ th[w].pc = "s_top"
              \/ th[w].pc = "s_qtop" /\ th[w].pending # <<>>)
              => ~CallsOut(th'[w])]_vars

\* the worker is at a point where the loops sample the stop flag
Sampling(t) ==
    \/ t.pc = "s_top" /\ Cardinality(t.answered_questions) < t.cfg.total_questions
    \/ t.pc = "s_qtop" /\ t.pending # <<>>
    \/ t.pc = "n_top" /\ t.i <= t.cfg.total_questions

\* C34: a stop request is not lost: a worker that was running when
\* stop_answering was called starts no further window, question or iteration
\* at the next point where it samples the stop flag, whatever the initiator
\* did in between.
C34_StopNotLost ==
    [][\A w \in threads :
          (StepOf(w) /\ th[w].stopped /\ Sampling(th[w]))
              => th'[w].pc \notin {"s_capture", "s_ask", "n_capture"}]_vars

\* C35: scroll loop: a scroll step that is handed a distance above zero
\* injects a wheel scroll of at least one click downward.
C35_ScrollProgress ==
    [][\A w \in threads :
          (InScroll(w) /\ StepOf(w) /\ th[w].pc = "s_scroll" /\ th[w].dist > 0)
              => ext'.kind = "scroll"]_vars

\* the steps of _answer_single_question that come before the next button
BeforeNext == {"n_capture", "n_ocr", "n_ask", "n_click"}

\* C36: fixed loop: the next coordinate is clicked only from the step after
\* the option clicks, which an iteration reaches only through steps that did
\* not fail; an iteration that ends in the capture, the recognition, the
\* oracle call or the option clicks ends as a failed one, at the top of the
\* next iteration, with no next click made for it.
C36_NextOnlyAfterSuccess ==
    [][\A w \in threads : (InFixed(w) /\ StepOf(w)) =>
          /\ (ext'.kind = "next") = (th'[w].nexts # th[w].nexts)
          /\ ext'.kind = "next"
                => /\ th[w].pc = "n_next"
                   /\ th[w].tokens = <<>>
                   /\ th[w].i \notin th[w].errors
                   /\ th'[w].nexts = Append(th[w].nexts, th[w].i)
          /\ (th[w].pc \in BeforeNext /\ th'[w].pc # "n_top")
                => /\ ext'.res # "raise"
                   /\ th'[w].pc \in BeforeNext \cup {"n_next"}
                   /\ th'[w].i = th[w].i
          /\ (th[w].pc \in BeforeNext /\ th'[w].pc = "n_top")
                => /\ th'[w].i = th[w].i + 1
                   /\ th[w].i \in th'[w].errors
                   /\ th'[w].nexts = th[w].nexts
                   /\ \A k \in 1..Len(th[w].nexts) : th[w].nexts[k] # th[w].i]_vars

\* C36 witness: an option click of iteration 1 failed in a session with a
\* marked next button: iteration 2 begins and no next click was made.
C36_Witness ==
    \E w \in threads :
        /\ InFixed(w) /\ th[w].cfg.manual /\ ~th[w].cfg.auto_next
        /\ th[w].cfg.total_questions = 2
        /\ ext.w = w /\ ext.kind = "click" /\ ext.res = "raise"
        /\ th[w].pc = "n_top" /\ th[w].i = 2
        /\ th[w].errors = {1}
        /\ th[w].nexts = <<>>

\* marker l is shown by a line of the window captured at page position top
ShownIn(top, l) == \E k \in 1..Len(LinesIn(top)) : Head(LinesIn(top)[k].words) = l

\* C37: every option click is made at the coordinate that the recognition of
\* the capture the worker holds gives for the token (fixed loop: the capture
\* of the iteration; scroll loop: the capture of the window), a capture taken
\* at the page position of the time, unless coordinates were supplied, and
\* then at the supplied coordinate, which no step of the worker changes.
C37_OwnCoordinates ==
    [][\A w \in threads : StepOf(w) =>
          /\ th'[w].cfg = th[w].cfg
          /\ (ext'.kind = "capture" /\ ext'.res = "ok") => th'[w].capTop = page
          /\ (ext'.kind # "capture" /\ th'[w].pc \notin {"n_top", "n_sleep", "t_finally"})
                => th'[w].capTop = th[w].capTop
          /\ ext'.kind = "click"
                => LET l == Head(th[w].tokens)[1]
                   IN  IF th[w].cfg.manual
                       THEN ext'.at = ManualOptions[l]
                       ELSE /\ th[w].ocr = "dict"
                            /\ ShownIn(th[w].capTop, l)
                            /\ ext'.at = OptionPointIn(th[w].capTop, l)]_vars

\* C37 witness: in the second window of a scroll session the option A is
\* clicked at the coordinate it has in that window, which is not the one it
\* had in the first window.
C37_Witness ==
    \E w \in threads :
        /\ InScroll(w)
        /\ ext.w = w /\ ext.kind = "click" /\ ext.res = "ok"
        /\ th[w].firstTop >= 0 /\ th[w].capTop > th[w].firstTop
        /\ ShownIn(th[w].firstTop, "A") /\ ShownIn(th[w].capTop, "A")
        /\ ext.at = OptionPointIn(th[w].capTop, "A")
        /\ ext.at # OptionPointIn(th[w].firstTop, "A")

\* the settings of the form are complete and valid
ValidForm(form) ==
    /\ form.api_key /\ form.ocr_keys /\ form.region
    /\ form.interval_ok /\ form.scroll_ok
    /\ form.total_questions > 0
    /\ (form.answering_mode = "fixed" /\ form.ocr_mode = "general_basic") => form.marked

\* C38: once the start/stop button was clicked with the session idle and
\* the settings complete and valid, exactly one worker runs, the session is
\* running, and no start failure was reported.
C38_ValidStartRuns ==
    (/\ call.fn = "on_start_button_click"
     /\ call.clicks = 1
     /\ ValidForm(call.form))
        => /\ call.is_running
           /\ Cardinality({w \in threads : Alive(w)}) = 1
           /\ call.shown # "start_failed"

\* a fixed session of worker w that no stop request has reached
Unstopped(w) == InFixed(w) /\ ~th[w].stopped

\* C39: a fixed session with total N and no stop request ends; until then
\* each iteration begins with one capture attempt, made under the number of
\* the iteration, and ends, failed or not, with the number going up by one;
\* the session ends after iteration N and reports completion, whatever
\* iterations failed.
C39_FixedRunsToN ==
    /\ [][\A w \in threads : (Unstopped(w) /\ ~th'[w].stopped /\ StepOf(w)) =>
            /\ th[w].pc = "n_top"
                  => /\ th'[w].i = th[w].i
                     /\ th[w].i <= th[w].cfg.total_questions => th'[w].pc = "n_capture"
                     /\ th[w].i > th[w].cfg.total_questions
                           => th'[w].pc = "t_finally" /\ th'[w].why = "done"
            /\ (ext'.kind = "capture") = (th[w].pc = "n_capture")
            /\ ext'.kind = "capture" => ext'.q = th[w].i /\ th'[w].pc # "n_capture"
            /\ th'[w].i # th[w].i
                  => th'[w].i = th[w].i + 1 /\ th'[w].pc = "n_top"
            /\ (th'[w].pc = "n_top" /\ th[w].pc # "n_top") => th'[w].i = th[w].i + 1
            /\ th[w].pc = "t_finally"
                  => /\ th[w].i = th[w].cfg.total_questions + 1
                     /\ th'[w].report = "completed"]_vars
    /\ (Unstopped(1) /\ Alive(1)) ~> (th[1].pc = "dead" \/ th[1].stopped)

\* C39 witness: a session of two questions with no stop request has ended
\* with both iterations failed, and reported completion.
C39_Witness ==
    \E w \in threads :
        /\ Unstopped(w) /\ th[w].pc = "dead"
        /\ th[w].cfg.total_questions = 2
        /\ th[w].errors = {1, 2}
        /\ th[w].i = 3
        /\ th[w].report = "completed"

====
